---- MODULE Spec2Model ----
(***************************************************************************)
(* Document extraction backend: the in-memory document store (storage.py), *)
(* the Document record (models.py) and the upload / processing             *)
(* orchestration (routes/documents.py), with the extraction client         *)
(* (extractor.py) seen through the reply it hands back.                    *)
(*                                                                         *)
(* Request threads run concurrently.  Every store operation runs under the *)
(* store's RLock; Document objects are shared by reference, so a thread    *)
(* that obtained a Document reads its attributes without the lock.         *)
(* update_document therefore writes one attribute per step.                *)
(*                                                                         *)
(* Document attributes that are set by the constructor and never written   *)
(* again (filename, file_path, file_size, uploaded_at) are left out of the *)
(* record; file_type is kept because process_document passes it on.        *)
(***************************************************************************)
EXTENDS Integers, Sequences, FiniteSets, TLC

VARIABLES
    documents,   \* storage._documents: id string -> Document
    order,       \* insertion order of the keys of storage._documents
    next_id,     \* storage._next_id
    lock,        \* owner of storage._lock (0: free)
    pc,          \* position of each upload request thread
    loc,         \* locals of each upload request thread
    response,    \* upload_document's `documents` list of each request
    started,     \* number of files taken in by upload requests so far
    rpc,         \* position of the status request (reader) thread
    rloc,        \* locals of the status request thread
    history,     \* per stored key: the distinct status values taken, in order
    versions,    \* per stored key: Document values at the end of store operations
    procCalls,   \* per stored key: number of process_document invocations
    apiCalls,    \* per stored key: number of outbound model calls
    rejected,    \* keys of documents created by _create_error_document
    invalid,     \* keys of documents whose file fails validation
    failed,      \* keys of documents whose extraction raised
    overwritten, \* keys whose Document was replaced by a later create_document
    ptext,       \* parse_llm_response's argument response_text
    pres,        \* what parse_llm_response returned or raised
    lastUpdate,  \* the latest direct storage.update_document call
    listed       \* what a storage.list_documents call returned

vars == <<documents, order, next_id, lock, pc, loc, response, started,
          rpc, rloc, history, versions, procCalls, apiCalls, rejected,
          invalid, failed, overwritten, ptext, pres, lastUpdate, listed>>

----------------------------------------------------------------------------
(* Bounds *)

\* number of concurrent upload request threads
NumUploaders == 2

\* total number of files taken in over all upload requests
MaxDocs == 2

Uploaders == 1..NumUploaders

----------------------------------------------------------------------------
(* Python values *)

\* None / a value, for the nullable attributes
None == << >>
Some(x) == <<x>>

\* str(int) for non-negative integers
Digit == <<"0", "1", "2", "3", "4", "5", "6", "7", "8", "9">>

RECURSIVE IdStr(_)
IdStr(n) == IF n < 10 THEN Digit[n + 1]
            ELSE IdStr(n \div 10) \o Digit[(n % 10) + 1]

\* str.lower() on the extensions that occur
Lower(s) == CASE s = "PDF" -> "pdf"
              [] s = "EXE" -> "exe"
              [] OTHER -> s

----------------------------------------------------------------------------
(* Configuration (app.py) and uploaded files *)

ALLOWED_EXTENSIONS == {"pdf", "png", "jpg", "jpeg", "txt"}

MAX_FILE_SIZE == 10485760

\* file types extract_document_data knows how to send
SupportedTypes == {"png", "jpg", "jpeg", "pdf", "txt"}

\* An uploaded file: whether its name has a dot, the text after the last dot,
\* and its size in bytes.
TestFiles ==
    { [dot |-> TRUE,  ext |-> "pdf", size |-> 2048],
      [dot |-> TRUE,  ext |-> "PDF", size |-> 2048],
      [dot |-> TRUE,  ext |-> "exe", size |-> 2048],
      [dot |-> TRUE,  ext |-> "EXE", size |-> 2048],
      [dot |-> TRUE,  ext |-> "txt", size |-> MAX_FILE_SIZE + 1],
      [dot |-> FALSE, ext |-> "",    size |-> 2048] }

allowed_file(f) == f.dot /\ Lower(f.ext) \in ALLOWED_EXTENSIONS

get_file_extension(f) == IF f.dot THEN Lower(f.ext) ELSE ""

----------------------------------------------------------------------------
(* Document (models.py) *)

DocFields == {"id", "file_type", "status", "processed_at", "error_message",
              "extracted_data", "sales_order_header_id"}

\* Document(data) for the two shapes of `data` the routes build: the keys
\* not given take the constructor's defaults.
Document(id, file_type, status, error_message) ==
    [ id                    |-> id,
      file_type             |-> file_type,
      status                |-> status,
      processed_at          |-> None,
      error_message         |-> error_message,
      extracted_data        |-> None,
      sales_order_header_id |-> None ]

\* upload_document: the Document built for a validated, saved file
UploadedDocument(f) == Document("0", get_file_extension(f), "uploaded", None)

\* _create_error_document: the Document built for a rejected file
ErrorDocument(msg) == Document("0", "", "error", Some(msg))

\* A file fails validation: its name has no extension, its extension (in
\* any letter case) is not an allowed one, or it is larger than the maximum
FailsValidation(f) ==
    \/ ~f.dot
    \/ \A e \in ALLOWED_EXTENSIONS : Lower(f.ext) # e
    \/ f.size > MAX_FILE_SIZE

\* ValidationError with the size check (lines 140-146) left out
ValidationErrorNoSizeCheck(f) ==
    IF ~allowed_file(f) THEN Some("File type not allowed") ELSE None

\* the validation message of upload_document, None for a valid file
ValidationError(f) ==
    IF ~allowed_file(f) THEN Some("File type not allowed")
    ELSE IF f.size > MAX_FILE_SIZE THEN Some("File too large")
    ELSE None

----------------------------------------------------------------------------
(* What extract_document_data hands back *)

\* A parsed reply (the value json.loads returned), as far as process_document
\* looks into it: its type, the type of its sales_order_header member, and
\* that member's invoice_number.
JVal(kind, header, inv_kind, inv) ==
    [kind |-> kind, header |-> header, inv_kind |-> inv_kind, inv |-> inv]

ParsedValues ==
    { JVal("null", "absent", "absent", ""),     \* null
      JVal("list", "absent", "absent", ""),     \* [...]
      JVal("dict", "absent", "absent", ""),     \* {} / no sales_order_header
      JVal("dict", "null",   "absent", ""),     \* {"sales_order_header": null}
      JVal("dict", "dict",   "absent", ""),     \* header without invoice_number
      JVal("dict", "dict",   "null",   ""),     \* "invoice_number": null
      JVal("dict", "dict",   "str",    ""),     \* "invoice_number": ""
      JVal("dict", "dict",   "str",    "INV-100"),
      JVal("dict", "dict",   "str",    "1") }

\* The outcome of the outbound call followed by parse_llm_response
ModelReplies ==
    { [kind |-> "api_error",  val |-> JVal("null", "absent", "absent", "")],
      [kind |-> "unparsable", val |-> JVal("null", "absent", "absent", "")] }
    \cup { [kind |-> "parsed", val |-> v] : v \in ParsedValues }

----------------------------------------------------------------------------
(* process_document: what it computes between its store updates *)

\* datetime.utcnow().isoformat(): some non-null time stamp
UtcNow == Some("utcnow")

\* str(e) of the exception the extraction raised, None if it returned and
\* line 70 of routes/documents.py could read the invoice number
ExtractionFailure(reply) ==
    CASE reply.kind = "api_error"  -> Some("OpenAI API error")
      [] reply.kind = "unparsable" -> Some("Could not parse JSON from LLM response")
      [] reply.val.kind # "dict"   -> Some("object has no attribute 'get'")
      [] reply.val.header \notin {"absent", "dict"}
                                   -> Some("object has no attribute 'get'")
      [] OTHER                     -> None

\* extracted_data.get('sales_order_header', {}).get('invoice_number', '')
InvoiceNumber(v) ==
    IF v.header = "absent" \/ v.inv_kind = "absent" THEN Some("")
    ELSE IF v.inv_kind = "null" THEN None
    ELSE Some(v.inv)

\* Python truth of a None-or-string value
Truthy(x) == x # None /\ x[1] # ""

\* SalesOrderId falling back only when the invoice number is None
SalesOrderIdFallbackOnNoneOnly(v, document_id) ==
    IF InvoiceNumber(v) # None THEN InvoiceNumber(v)[1]
    ELSE "SO-" \o document_id

\* sales_order_id = invoice_number if invoice_number else f"SO-{document_id}"
SalesOrderId(v, document_id) ==
    IF Truthy(InvoiceNumber(v)) THEN InvoiceNumber(v)[1]
    ELSE "SO-" \o document_id

\* the `updates` dict of the completion update, in its iteration order
CompletionUpdate(v, document_id) ==
    << <<"sales_order_header_id", Some(SalesOrderId(v, document_id))>>,
       <<"extracted_data", Some(v)>>,
       <<"status", "completed">>,
       <<"processed_at", UtcNow>> >>

\* ErrorUpdate that records the message but leaves the status alone
ErrorUpdateWithoutStatus(msg) ==
    << <<"error_message", Some(msg)>>,
       <<"processed_at", UtcNow>> >>

\* the `updates` dict of the error update, in its iteration order
ErrorUpdate(msg) ==
    << <<"status", "error">>,
       <<"error_message", Some(msg)>>,
       <<"processed_at", UtcNow>> >>

----------------------------------------------------------------------------
(* DocumentStorage (storage.py) *)

\* a lock that never makes anyone wait
LockIgnored(t) == TRUE

\* threading.RLock: free, or already held by the asking thread
LockAvailable(t) == lock = 0 \/ lock = t

\* `not document.id or document.id == '0'`
IsPlaceholder(id) == id = "" \/ id = "0"

\* setattr(doc, key, value) guarded by hasattr(doc, key)
SetAttrReplacing(doc, key, value) ==
    IF key \in DocFields
    THEN [Document("0", "", "uploaded", None) EXCEPT ![key] = value] ELSE doc

SetAttr(doc, key, value) ==
    IF key \in DocFields THEN [doc EXCEPT ![key] = value] ELSE doc

\* self._documents[id] = doc; a dict keeps the position of a key it already has
Put(id, doc) ==
    /\ documents' = [k \in DOMAIN documents \cup {id} |->
                        IF k = id THEN doc ELSE documents[k]]
    /\ order' = IF id \in DOMAIN documents THEN order ELSE Append(order, id)

\* the status sequence of key id after its Document takes status st
Observe(id, st) ==
    [k \in DOMAIN history \cup {id} |->
        IF k # id THEN history[k]
        ELSE IF id \notin DOMAIN history THEN <<st>>
        ELSE IF history[id][Len(history[id])] = st THEN history[id]
        ELSE Append(history[id], st)]

\* the committed values of key id after a store operation leaves doc there
Commit(id, doc) ==
    [k \in DOMAIN versions \cup {id} |->
        IF k # id THEN versions[k]
        ELSE IF id \in DOMAIN versions THEN versions[id] \cup {doc}
        ELSE {doc}]

\* a per-key counter with key id counted once more
Bump(f, id) ==
    [k \in DOMAIN f \cup {id} |->
        IF k # id THEN f[k]
        ELSE IF id \in DOMAIN f THEN f[id] + 1 ELSE 1]

\* get_document_by_sales_order_id: the first Document, in insertion order,
\* whose sales_order_header_id equals the key; None if there is none
\* the scan keeping the last match instead of returning at the first
get_document_by_sales_order_id_last(key) ==
    LET hits == {i \in 1..Len(order) :
                    documents[order[i]].sales_order_header_id = Some(key)}
    IN  IF hits = {} THEN None
        ELSE Some(order[CHOOSE i \in hits : \A j \in hits : i >= j])

get_document_by_sales_order_id(key) ==
    LET hits == {i \in 1..Len(order) :
                    documents[order[i]].sales_order_header_id = Some(key)}
    IN  IF hits = {} THEN None
        ELSE Some(order[CHOOSE i \in hits : \A j \in hits : i <= j])

\* get_document: the Document stored under the key; None if there is none
get_document(key) == IF key \in DOMAIN documents THEN Some(key) ELSE None

----------------------------------------------------------------------------
(* Initial state: an empty store, every request thread idle *)

NoDocument == Document("0", "", "uploaded", None)

NoFile == [dot |-> FALSE, ext |-> "", size |-> 0]

IdleLoc == [file |-> NoFile, doc |-> NoDocument, valid |-> FALSE,
            current_id |-> 0, id |-> "", pending |-> << >>]

NoView == [status |-> "", extracted_data |-> None, error |-> None,
           sales_order_header_id |-> None]

IdleReader == [key |-> "", ref |-> "", seen |-> NoView]

\* before parse_llm_response has run
NoResult == [kind |-> "none", by |-> "", err |-> "",
             v |-> [t |-> "lit", s |-> "null", c |-> << >>]]

\* before any direct storage.update_document call
NoUpdate == [calls |-> 0, id |-> "", changes |-> << >>, found |-> FALSE]

\* before storage.list_documents has been called
NoList == [called |-> FALSE, ids |-> << >>, at_call |-> << >>]

Init ==
    /\ documents = [k \in {} |-> NoDocument]
    /\ order = << >>
    /\ next_id = 1
    /\ lock = 0
    /\ pc = [t \in Uploaders |-> "idle"]
    /\ loc = [t \in Uploaders |-> IdleLoc]
    /\ response = [t \in Uploaders |-> << >>]
    /\ started = 0
    /\ rpc = "idle"
    /\ rloc = IdleReader
    /\ history = [k \in {} |-> << >>]
    /\ versions = [k \in {} |-> {}]
    /\ procCalls = [k \in {} |-> 0]
    /\ apiCalls = [k \in {} |-> 0]
    /\ rejected = {}
    /\ invalid = {}
    /\ failed = {}
    /\ overwritten = {}
    /\ ptext = << >>
    /\ pres = NoResult
    /\ lastUpdate = NoUpdate
    /\ listed = NoList

readerVars == <<rpc, rloc>>

auxVars == <<ptext, pres, lastUpdate, listed>>

----------------------------------------------------------------------------
(* The upload request: upload_document, one file at a time *)

\* one entry of upload_document's `documents` list
ResponseEntry(doc) ==
    [document_id |-> doc.id, status |-> doc.status,
     error |-> doc.error_message,
     sales_order_header_id |-> doc.sales_order_header_id]

\* Lines 125-176 / 340-349: validate the next file, build its Document and
\* enter create_document: take the store lock and read the id counter.
upload_document(t, f) ==
    /\ pc[t] = "idle"
    /\ started < MaxDocs
    /\ LockAvailable(t)
    /\ LET err == ValidationError(f)
           doc == IF err = None THEN UploadedDocument(f)
                  ELSE ErrorDocument(err[1])
       IN  loc' = [loc EXCEPT ![t] = [IdleLoc EXCEPT !.file = f, !.doc = doc,
                                         !.valid = (err = None),
                                         !.current_id = next_id]]
    /\ lock' = t
    /\ pc' = [pc EXCEPT ![t] = "create"]
    /\ started' = started + 1
    /\ UNCHANGED <<documents, order, next_id, response, auxVars, readerVars, history,
                   versions, procCalls, apiCalls, rejected, invalid, failed,
                   overwritten>>

\* create_document, rest of the critical section: advance the counter, set
\* the id, store the Document, release the lock.  A rejected file's entry
\* is appended to the response and the request moves to its next file.
create_document(t) ==
    /\ pc[t] = "create"
    /\ LET doc    == loc[t].doc
           fresh  == IsPlaceholder(doc.id)
           id     == IF fresh THEN IdStr(loc[t].current_id) ELSE doc.id
           stored == [doc EXCEPT !.id = id]
       IN  /\ next_id' = IF fresh THEN next_id + 1 ELSE next_id
           /\ Put(id, stored)
           /\ history' = Observe(id, stored.status)
           /\ versions' = Commit(id, stored)
           /\ overwritten' = IF id \in DOMAIN documents
                             THEN overwritten \cup {id} ELSE overwritten
           /\ invalid' = IF FailsValidation(loc[t].file)
                         THEN invalid \cup {id} ELSE invalid
           /\ IF loc[t].valid
              THEN /\ pc' = [pc EXCEPT ![t] = "process"]
                   /\ loc' = [loc EXCEPT ![t] = [IdleLoc EXCEPT !.id = id]]
                   /\ UNCHANGED <<response, rejected>>
              ELSE /\ pc' = [pc EXCEPT ![t] = "idle"]
                   /\ loc' = [loc EXCEPT ![t] = IdleLoc]
                   /\ response' = [response EXCEPT
                                     ![t] = Append(@, ResponseEntry(stored))]
                   /\ rejected' = rejected \cup {id}
    /\ lock' = 0
    /\ UNCHANGED <<started, auxVars, readerVars, procCalls, apiCalls, failed>>

\* process_document that starts the extraction without the update to
\* `processing`
process_document_without_status(t) ==
    /\ pc[t] = "process"
    /\ LockAvailable(t)
    /\ procCalls' = Bump(procCalls, loc[t].id)
    /\ pc' = [pc EXCEPT ![t] = "extract"]
    /\ UNCHANGED <<documents, history, versions, order, next_id, lock, loc,
                   response, started, auxVars, readerVars, apiCalls, rejected, invalid,
                   failed, overwritten>>

\* process_document that keeps the store lock after its first update, so
\* that the extraction runs inside the critical section
process_document_holding_lock(t) ==
    /\ pc[t] = "process"
    /\ LockAvailable(t)
    /\ LET id  == loc[t].id
           doc == SetAttr(documents[id], "status", "processing")
       IN  /\ procCalls' = Bump(procCalls, id)
           /\ documents' = [documents EXCEPT ![id] = doc]
           /\ history' = Observe(id, doc.status)
           /\ versions' = Commit(id, doc)
    /\ lock' = t
    /\ pc' = [pc EXCEPT ![t] = "extract"]
    /\ UNCHANGED <<order, next_id, loc, response, started, auxVars, readerVars,
                   apiCalls, rejected, invalid, failed, overwritten>>

\* process_document, lines 50-56: the one-field update to `processing`
process_document(t) ==
    /\ pc[t] = "process"
    /\ LockAvailable(t)
    /\ LET id == loc[t].id
       IN  /\ procCalls' = Bump(procCalls, id)
           /\ IF id \in DOMAIN documents
              THEN LET doc == SetAttr(documents[id], "status", "processing")
                   IN  /\ documents' = [documents EXCEPT ![id] = doc]
                       /\ history' = Observe(id, doc.status)
                       /\ versions' = Commit(id, doc)
              ELSE UNCHANGED <<documents, history, versions>>
    /\ pc' = [pc EXCEPT ![t] = "extract"]
    /\ UNCHANGED <<order, next_id, lock, loc, response, started, auxVars, readerVars,
                   apiCalls, rejected, invalid, failed, overwritten>>

\* process_document lines 58-66 and extract_document_data up to the outbound
\* call: a missing OPENAI_API_KEY or an unsupported file type raises, else
\* the call to the model is issued (no lock is held while it is in flight).
extract_document_data(t, hasKey) ==
    /\ pc[t] = "extract"
    /\ IF ~hasKey
       THEN /\ loc' = [loc EXCEPT ![t].pending =
                         ErrorUpdate("OPENAI_API_KEY environment variable is not set")]
            /\ pc' = [pc EXCEPT ![t] = "update"]
            /\ failed' = failed \cup {loc[t].id}
            /\ UNCHANGED apiCalls
       ELSE IF documents[loc[t].id].file_type \notin SupportedTypes
       THEN /\ loc' = [loc EXCEPT ![t].pending =
                         ErrorUpdate("Unsupported file type")]
            /\ pc' = [pc EXCEPT ![t] = "update"]
            /\ failed' = failed \cup {loc[t].id}
            /\ UNCHANGED apiCalls
       ELSE /\ apiCalls' = Bump(apiCalls, loc[t].id)
            /\ pc' = [pc EXCEPT ![t] = "call"]
            /\ UNCHANGED <<loc, failed>>
    /\ UNCHANGED <<documents, order, next_id, lock, response, started,
                   auxVars, readerVars, history, versions, procCalls, rejected,
                   invalid, overwritten>>

\* model_reply without process_document's `except` (lines 87-95): a
\* failure leaves process_document and the file loop of upload_document
\* and ends the request in its outer handler (lines 219-221)
model_reply_unhandled(t, reply) ==
    /\ pc[t] = "call"
    /\ LET fail == ExtractionFailure(reply)
       IN  IF fail = None
           THEN /\ loc' = [loc EXCEPT ![t].pending =
                             CompletionUpdate(reply.val, loc[t].id)]
                /\ pc' = [pc EXCEPT ![t] = "update"]
                /\ UNCHANGED failed
           ELSE /\ loc' = [loc EXCEPT ![t] = IdleLoc]
                /\ pc' = [pc EXCEPT ![t] = "idle"]
                /\ failed' = failed \cup {loc[t].id}
    /\ UNCHANGED <<documents, order, next_id, lock, response, started,
                   auxVars, readerVars, history, versions, procCalls, apiCalls,
                   rejected, invalid, overwritten>>

\* The outbound call returns or raises, parse_llm_response parses or raises,
\* and process_document (lines 69-79 / 87-94) prepares the update it makes.
model_reply(t, reply) ==
    /\ pc[t] = "call"
    /\ LET fail == ExtractionFailure(reply)
       IN  /\ loc' = [loc EXCEPT ![t].pending =
                     IF fail = None THEN CompletionUpdate(reply.val, loc[t].id)
                     ELSE ErrorUpdate(fail[1])]
           /\ failed' = IF fail = None THEN failed
                        ELSE failed \cup {loc[t].id}
    /\ pc' = [pc EXCEPT ![t] = "update"]
    /\ UNCHANGED <<documents, order, next_id, lock, response, started,
                   auxVars, readerVars, history, versions, procCalls, apiCalls,
                   rejected, invalid, overwritten>>

\* update_document that leaves the critical section without releasing the
\* store lock
update_document_keeping_lock(t) ==
    /\ pc[t] = "update"
    /\ LockAvailable(t)
    /\ LET id   == loc[t].id
           key  == loc[t].pending[1][1]
           val  == loc[t].pending[1][2]
           last == Len(loc[t].pending) = 1
       IN  IF id \notin DOMAIN documents
           THEN /\ pc' = [pc EXCEPT ![t] = "return"]
                /\ loc' = [loc EXCEPT ![t].pending = << >>]
                /\ UNCHANGED <<documents, history, versions>>
           ELSE LET doc == SetAttr(documents[id], key, val)
                IN  /\ documents' = [documents EXCEPT ![id] = doc]
                    /\ history' = Observe(id, doc.status)
                    /\ loc' = [loc EXCEPT ![t].pending = Tail(@)]
                    /\ IF last
                       THEN /\ versions' = Commit(id, doc)
                            /\ pc' = [pc EXCEPT ![t] = "return"]
                       ELSE UNCHANGED <<versions, pc>>
    /\ lock' = t
    /\ UNCHANGED <<order, next_id, response, started, auxVars, readerVars, procCalls,
                   apiCalls, rejected, invalid, failed, overwritten>>

\* update_document, one setattr per step: the first step takes the lock,
\* the last one releases it.
update_document(t) ==
    /\ pc[t] = "update"
    /\ LockAvailable(t)
    /\ LET id   == loc[t].id
           key  == loc[t].pending[1][1]
           val  == loc[t].pending[1][2]
           last == Len(loc[t].pending) = 1
       IN  IF id \notin DOMAIN documents
           THEN /\ pc' = [pc EXCEPT ![t] = "return"]
                /\ loc' = [loc EXCEPT ![t].pending = << >>]
                /\ lock' = 0
                /\ UNCHANGED <<documents, history, versions>>
           ELSE LET doc == SetAttr(documents[id], key, val)
                IN  /\ documents' = [documents EXCEPT ![id] = doc]
                    /\ history' = Observe(id, doc.status)
                    /\ loc' = [loc EXCEPT ![t].pending = Tail(@)]
                    /\ IF last
                       THEN /\ lock' = 0
                            /\ versions' = Commit(id, doc)
                            /\ pc' = [pc EXCEPT ![t] = "return"]
                       ELSE /\ lock' = t
                            /\ UNCHANGED <<versions, pc>>
    /\ UNCHANGED <<order, next_id, response, started, auxVars, readerVars, procCalls,
                   apiCalls, rejected, invalid, failed, overwritten>>

\* upload_append reached through upload_document's own exception handler
\* (lines 184-192) although process_document had returned: the handler's
\* error update is applied to the processed document
upload_append_after_handler(t) ==
    /\ pc[t] = "return"
    /\ LockAvailable(t)
    /\ loc[t].id \in DOMAIN documents
    /\ LET id  == loc[t].id
           doc == [documents[id] EXCEPT !.status = "error",
                                        !.error_message = Some("handler"),
                                        !.processed_at = UtcNow]
       IN  /\ documents' = [documents EXCEPT ![id] = doc]
           /\ history' = Observe(id, doc.status)
           /\ versions' = Commit(id, doc)
           /\ response' = [response EXCEPT
                             ![t] = Append(@, ResponseEntry(doc))]
    /\ pc' = [pc EXCEPT ![t] = "idle"]
    /\ loc' = [loc EXCEPT ![t] = IdleLoc]
    /\ UNCHANGED <<order, next_id, lock, started, auxVars, readerVars, procCalls,
                   apiCalls, rejected, invalid, failed, overwritten>>

\* upload_append that sends a document that ended in `error` through
\* process_document once more
upload_append_retrying(t) ==
    /\ pc[t] = "return"
    /\ LockAvailable(t)
    /\ loc[t].id \in DOMAIN documents
    /\ IF documents[loc[t].id].status = "error"
          /\ procCalls[loc[t].id] < 2
       THEN /\ pc' = [pc EXCEPT ![t] = "process"]
            /\ UNCHANGED <<response, loc>>
       ELSE /\ response' = [response EXCEPT
                      ![t] = Append(@, ResponseEntry(documents[loc[t].id]))]
            /\ pc' = [pc EXCEPT ![t] = "idle"]
            /\ loc' = [loc EXCEPT ![t] = IdleLoc]
    /\ UNCHANGED <<documents, order, next_id, lock, started, auxVars, readerVars,
                   history, versions, procCalls, apiCalls, rejected, invalid,
                   failed, overwritten>>

\* process_document returns storage.get_document(document_id); lines 194-201
\* append its entry to the response and the request moves to its next file.
\* process_document catches every Exception itself and its handler cannot
\* raise, so the `except` of lines 184-192 is never entered.
upload_append(t) ==
    /\ pc[t] = "return"
    /\ LockAvailable(t)
    /\ loc[t].id \in DOMAIN documents
    /\ response' = [response EXCEPT
                      ![t] = Append(@, ResponseEntry(documents[loc[t].id]))]
    /\ pc' = [pc EXCEPT ![t] = "idle"]
    /\ loc' = [loc EXCEPT ![t] = IdleLoc]
    /\ UNCHANGED <<documents, order, next_id, lock, started, auxVars, readerVars,
                   history, versions, procCalls, apiCalls, rejected, invalid,
                   failed, overwritten>>

Next ==
    \E t \in Uploaders :
        \/ \E f \in TestFiles : upload_document(t, f)
        \/ create_document(t)
        \/ process_document(t)
        \/ \E hasKey \in BOOLEAN : extract_document_data(t, hasKey)
        \/ \E reply \in ModelReplies : model_reply(t, reply)
        \/ update_document(t)
        \/ upload_append(t)

Spec == Init /\ [][Next]_vars

----------------------------------------------------------------------------
(* A status request running beside the uploads: get_document_status *)

uploadVars == <<documents, order, next_id, lock, pc, loc, response, started,
                history, versions, procCalls, apiCalls, rejected, invalid,
                failed, overwritten>>

\* keys a status request asks for
ReaderKeys == {IdStr(i) : i \in 1..MaxDocs} \cup {"INV-100"}

\* _find_document_by_id, first lookup: by sales order id, under the lock
find_document_by_id(key) ==
    /\ rpc = "idle"
    /\ lock = 0
    /\ LET found == get_document_by_sales_order_id(key)
       IN  IF found # None
           THEN /\ rloc' = [rloc EXCEPT !.key = key, !.ref = found[1]]
                /\ rpc' = "status"
           ELSE /\ rloc' = [rloc EXCEPT !.key = key]
                /\ rpc' = "get"
    /\ UNCHANGED <<uploadVars, auxVars>>

\* _find_document_by_id, second lookup: by document id, under the lock;
\* the request ends with 404 when that finds nothing either
find_get_document ==
    /\ rpc = "get"
    /\ lock = 0
    /\ LET found == get_document(rloc.key)
       IN  IF found # None
           THEN /\ rloc' = [rloc EXCEPT !.ref = found[1]]
                /\ rpc' = "status"
           ELSE /\ rloc' = rloc
                /\ rpc' = "notfound"
    /\ UNCHANGED <<uploadVars, auxVars>>

\* get_document_status lines 274-284: the response is built from attribute
\* reads of the Document it holds, one dict entry per step, without the lock
get_document_status ==
    /\ rpc \in {"status", "extracted_data", "error", "sales_order_header_id"}
    /\ LET doc == documents[rloc.ref]
       IN  CASE rpc = "status" ->
                  /\ rloc' = [rloc EXCEPT !.seen.status = doc.status]
                  /\ rpc' = "extracted_data"
             [] rpc = "extracted_data" ->
                  /\ rloc' = [rloc EXCEPT !.seen.extracted_data =
                                IF doc.status = "completed"
                                THEN doc.extracted_data ELSE None]
                  /\ rpc' = "error"
             [] rpc = "error" ->
                  /\ rloc' = [rloc EXCEPT !.seen.error =
                                IF doc.status = "error"
                                THEN doc.error_message ELSE None]
                  /\ rpc' = "sales_order_header_id"
             [] rpc = "sales_order_header_id" ->
                  /\ rloc' = [rloc EXCEPT !.seen.sales_order_header_id =
                                doc.sales_order_header_id]
                  /\ rpc' = "done"
    /\ UNCHANGED <<uploadVars, auxVars>>

NextRead ==
    \/ Next
    \/ \E key \in ReaderKeys : find_document_by_id(key)
    \/ find_get_document
    \/ get_document_status

SpecRead == Init /\ [][NextRead]_vars

----------------------------------------------------------------------------
(* The store's own interface, called directly: create_document with an id *)
(* the caller has already set                                             *)

\* ids a direct caller sets on the Document it passes in
PresetIds == {"", "1", "2"}

\* storage.create_document(Document({'id': id})) by some other caller, the
\* whole critical section in one step
create_with_id(id) ==
    /\ lock = 0
    /\ started < MaxDocs
    /\ LET doc    == Document(id, "", "uploaded", None)
           fresh  == IsPlaceholder(doc.id)
           key    == IF fresh THEN IdStr(next_id) ELSE doc.id
           stored == [doc EXCEPT !.id = key]
       IN  /\ next_id' = IF fresh THEN next_id + 1 ELSE next_id
           /\ Put(key, stored)
           /\ history' = Observe(key, stored.status)
           /\ versions' = Commit(key, stored)
           /\ overwritten' = IF key \in DOMAIN documents
                             THEN overwritten \cup {key} ELSE overwritten
    /\ started' = started + 1
    /\ UNCHANGED <<lock, pc, loc, response, auxVars, readerVars, procCalls, apiCalls,
                   rejected, invalid, failed>>

NextStore ==
    \/ Next
    \/ \E id \in PresetIds : create_with_id(id)

SpecStore == Init /\ [][NextStore]_vars

----------------------------------------------------------------------------
(* Properties *)

Ids == DOMAIN documents

Count(f, k) == IF k \in DOMAIN f THEN f[k] ELSE 0

Working == {"process", "extract", "call", "update", "return"}

\* a request thread is still driving document k
Busy(k) == \E t \in Uploaders : pc[t] \in Working /\ loc[t].id = k

\* an update_document call on document k is inside its critical section
Updating(k) == \E t \in Uploaders : lock = t /\ pc[t] = "update" /\ loc[t].id = k

IsPrefix(s, q) == Len(s) <= Len(q) /\ \A i \in 1..Len(s) : s[i] = q[i]

Lifecycles == { <<"uploaded">>,
                <<"uploaded", "processing", "completed">>,
                <<"uploaded", "processing", "error">> }

\* C1 (as stated): the status values every document has taken so far, in
\* order, are the beginning of [uploaded], [uploaded, processing, completed]
\* or [uploaded, processing, error] -- on every intake path.
C1_StatusSequence ==
    \A k \in DOMAIN history : \E q \in Lifecycles : IsPrefix(history[k], q)

\* C1 (amended): the same for every document of a validated file; the
\* document of a file rejected by validation has the one status `error`.
C1_StatusSequenceAmended ==
    \A k \in DOMAIN history :
        IF k \in rejected THEN history[k] = <<"error">>
        ELSE \E q \in Lifecycles : IsPrefix(history[k], q)

C1_Witness ==
    /\ \E k \in rejected : history[k] = <<"error">>
    /\ \E k \in Ids \ rejected :
          history[k] = <<"uploaded", "processing", "completed">>

\* C2: for every stored document, extracted_data is non-null iff status is
\* `completed`, and error_message is non-null iff status is `error`.
C2_DataInvariant ==
    \A k \in Ids :
        /\ (documents[k].extracted_data # None) <=> (documents[k].status = "completed")
        /\ (documents[k].error_message # None) <=> (documents[k].status = "error")

\* C3: once a document is `completed` or `error` (and the update that made
\* it so has returned), no step changes any of its attributes.
C3_TerminalIsFinal ==
    [][\A k \in Ids :
          (documents[k].status \in {"completed", "error"} /\ ~Updating(k))
              => documents'[k] = documents[k]]_vars

C3_Witness ==
    \E k \in Ids \ rejected : \E k2 \in Ids \ {k} :
        /\ documents[k].status = "completed"
        /\ ~Busy(k)
        /\ documents[k2].status = "error"
        /\ k2 \notin rejected
        /\ ~Busy(k2)

\* what get_document_status answers for a Document value
View(doc) ==
    [status |-> doc.status,
     extracted_data |-> IF doc.status = "completed" THEN doc.extracted_data ELSE None,
     error |-> IF doc.status = "error" THEN doc.error_message ELSE None,
     sales_order_header_id |-> doc.sales_order_header_id]

\* C4: a reader that obtained a document and read its attributes has seen
\* the values of one state of the document between store operations, never
\* a mixture of the values before and after an update.
C4_NoTornRead ==
    rpc = "done" => \E v \in versions[rloc.ref] : rloc.seen = View(v)

\* the create calls that have returned: <<t, i>> for the i-th entry of
\* request t's response, <<t, 0>> for the document t is processing
Returned ==
    {p \in Uploaders \X (0..MaxDocs) :
        \/ p[2] = 0 /\ pc[p[1]] \in Working
        \/ p[2] \in 1..Len(response[p[1]])}

ReturnedId(p) == IF p[2] = 0 THEN loc[p[1]].id
                 ELSE response[p[1]][p[2]].document_id

\* C5: after N create calls on the empty store, whatever their interleaving,
\* the store holds exactly N documents, under the ids "1".."N", and the
\* callers have received N different ids.
C5_GaplessIds ==
    LET given == Returned
        n == Cardinality(given)
    IN  /\ Ids = {IdStr(i) : i \in 1..n}
        /\ Len(order) = n
        /\ \A k \in Ids : documents[k].id = k
        /\ Cardinality({ReturnedId(p) : p \in given}) = n
        /\ \A p \in given : ReturnedId(p) \in Ids

C5_Witness ==
    /\ \A t \in Uploaders : pc[t] = "process"
    /\ Len(order) = NumUploaders

\* C6: no create call replaces a document already stored under an id,
\* whatever id the document passed in carries.
C6_IdsNeverReassigned == overwritten = {}

\* C7: a document whose extraction failed is never `completed` and never has
\* extracted data, and once its processing is over it is in `error` with an
\* error message and a processing time stamp.
C7_FailureEndsInError ==
    \A k \in failed :
        /\ documents[k].status # "completed"
        /\ documents[k].extracted_data = None
        /\ \A v \in versions[k] : v.status # "completed" /\ v.extracted_data = None
        /\ (\A t \in Uploaders : ~(loc[t].id = k /\ pc[t] = "update"))
              => /\ documents[k].status = "error"
                 /\ documents[k].error_message # None
                 /\ documents[k].processed_at # None

C7_Witness ==
    \E k \in failed :
        /\ ~Busy(k)
        /\ documents[k].error_message = Some("Could not parse JSON from LLM response")

\* the sales order id the claim names for record v of document k
ClaimedSalesOrderId(v, k) ==
    IF v.header = "dict" /\ v.inv_kind = "str" /\ v.inv # ""
    THEN v.inv ELSE "SO-" \o k

\* C8: a document is `completed` by one store update that also attaches the
\* record and the time stamp; its sales_order_header_id is the record's
\* invoice number when present and non-empty, else "SO-<id>", never empty.
C8_CompletionUpdate ==
    \A k \in Ids :
        /\ documents[k].status = "completed" =>
              /\ documents[k].extracted_data # None
              /\ documents[k].sales_order_header_id # None
              /\ documents[k].sales_order_header_id[1] # ""
              /\ documents[k].sales_order_header_id[1] =
                    ClaimedSalesOrderId(documents[k].extracted_data[1], k)
        /\ \A v \in versions[k] :
              /\ v.status = "completed" =>
                    /\ v.extracted_data # None
                    /\ v.processed_at # None
                    /\ v.sales_order_header_id # None
              /\ v.status \in {"uploaded", "processing"} =>
                    /\ v.extracted_data = None
                    /\ v.processed_at = None
                    /\ v.sales_order_header_id = None

C8_Witness ==
    \E k \in Ids : \E k2 \in Ids :
        /\ documents[k].status = "completed"
        /\ documents[k].sales_order_header_id = Some("SO-" \o k)
        /\ documents[k].extracted_data[1].inv_kind = "null"
        /\ documents[k2].status = "completed"
        /\ documents[k2].sales_order_header_id = Some("INV-100")

\* the number of times status st occurs in a status sequence
Occurrences(h, st) == Cardinality({i \in 1..Len(h) : h[i] = st})

\* C9: a document created in `uploaded` is processed once: process_document
\* runs at most once for it and exactly once by the time the request moves
\* on, it becomes `processing` at most once, and at most one model call is
\* made for it.
C9_OneAttempt ==
    \A k \in Ids \ rejected :
        /\ Count(procCalls, k) <= 1
        /\ Count(apiCalls, k) <= 1
        /\ Occurrences(history[k], "processing") <= 1
        /\ Count(procCalls, k) = 0 => documents[k].status = "uploaded"
        /\ ~Busy(k) => Count(procCalls, k) = 1

C9_Witness ==
    \E k \in Ids \ rejected :
        /\ ~Busy(k)
        /\ documents[k].status = "error"
        /\ documents[k].error_message = Some("OpenAI API error")
        /\ Count(apiCalls, k) = 1
        /\ Count(procCalls, k) = 1

\* C10: the document of a file that fails validation is in `error` with an
\* error message from the moment it is stored, never becomes `processing`
\* or `completed`, and no extraction is ever started for it.
C10_RejectedFile ==
    /\ \A k \in invalid :
          /\ documents[k].status = "error"
          /\ documents[k].error_message # None
          /\ history[k] = <<"error">>
          /\ \A v \in versions[k] : v.status = "error" /\ v.error_message # None
          /\ Count(procCalls, k) = 0
          /\ Count(apiCalls, k) = 0
    /\ \A t \in Uploaders :
          (pc[t] = "create" /\ FailsValidation(loc[t].file)) =>
              /\ loc[t].doc.status = "error"
              /\ loc[t].doc.error_message # None
              /\ ~loc[t].valid

C10_Witness ==
    \E k \in invalid : \E k2 \in invalid :
        /\ documents[k].error_message = Some("File type not allowed")
        /\ documents[k2].error_message = Some("File too large")

\* the number of response entries of the requests 1..n
RECURSIVE Responses(_)
Responses(n) == IF n = 0 THEN 0 ELSE Len(response[n]) + Responses(n - 1)

\* C11: a failure on one file is recorded on that file's document and stops
\* nothing else: every file taken in gets its document and its response
\* entry, every document a request has left is `completed` or `error`, and
\* it is `error` only if its own file or extraction failed.
C11_FailuresAbsorbed ==
    /\ Responses(NumUploaders)
          + Cardinality({t \in Uploaders : pc[t] # "idle"}) = started
    /\ Len(order) + Cardinality({t \in Uploaders : pc[t] = "create"}) = started
    /\ \A k \in Ids :
          ~Busy(k) =>
              /\ documents[k].status \in {"completed", "error"}
              /\ documents[k].status = "error" <=> k \in failed \cup invalid
              /\ documents[k].status = "error" => documents[k].error_message # None

C11_Witness ==
    \E t \in Uploaders :
        /\ Len(response[t]) = 2
        /\ response[t][1].status = "error"
        /\ response[t][1].document_id \in failed
        /\ response[t][2].status = "completed"

\* C12: when OPENAI_API_KEY is missing, the document never becomes
\* `processing` and no extraction call is made for it.
C12_NoProcessingWithoutKey ==
    \A k \in Ids :
        documents[k].error_message =
              Some("OPENAI_API_KEY environment variable is not set")
           => /\ Occurrences(history[k], "processing") = 0
              /\ Count(apiCalls, k) = 0

\* C13: the store lock is held only inside create_document and
\* update_document, never while a request prepares or awaits the model
\* call, and its holder can always go on to release it.
C13_LockNotHeldDuringCall ==
    \A t \in Uploaders :
        /\ pc[t] \in {"idle", "process", "extract", "call", "return"} => lock # t
        /\ lock = t => pc[t] \in {"create", "update"}
        /\ lock = t => ENABLED (create_document(t) \/ update_document(t))

C13_Witness ==
    \E t \in Uploaders : \E t2 \in Uploaders :
        /\ pc[t] = "call"
        /\ documents[loc[t].id].status = "processing"
        /\ lock = t2
        /\ pc[t2] = "update"


----------------------------------------------------------------------------
(* parse_llm_response: texts and the values json.loads builds from them   *)

\* A response text is a sequence of atoms: the characters that the decoder
\* and the regular expressions look at, one atom each, and runs of other
\* characters (a word, a number, a literal, a code fence) as one atom.
WS == " "
Quote == "\""
\* the code fence (three backquotes)
Fence == "'''"
Numbers == {"1", "2", "21.25", "42", "42.5"}
Literals == {"null", "true"}

\* s[i:i+1]
At(s, i) == IF i >= 1 /\ i <= Len(s) THEN s[i] ELSE ""

\* s[i-1:] with 1-based i
From(s, i) == SubSeq(s, i, Len(s))

\* str.strip()
RECURSIVE LStrip(_)
LStrip(s) == IF s # << >> /\ Head(s) = WS THEN LStrip(Tail(s)) ELSE s

RECURSIVE RStrip(_)
RStrip(s) == IF s # << >> /\ s[Len(s)] = WS
             THEN RStrip(SubSeq(s, 1, Len(s) - 1)) ELSE s

Strip(s) == RStrip(LStrip(s))

\* the first position at or after i that holds atom a, Len(s) + 1 if none
Find(s, a, i) ==
    LET hits == {k \in i..Len(s) : s[k] = a}
    IN  IF hits = {} THEN Len(s) + 1
        ELSE CHOOSE k \in hits : \A h \in hits : k <= h

\* str.count
CountOf(s, a) == Cardinality({i \in 1..Len(s) : s[i] = a})

\* the characters of s[i..j] as one string
RECURSIVE Join(_, _, _)
Join(s, i, j) == IF i > j THEN "" ELSE s[i] \o Join(s, i + 1, j)

\* A decoded value: t is its type, s its text (str, num, lit; the key of an
\* object member), c its children (members of an object in insertion order,
\* items of an array, the value of a member).
JNode(t, s, c) == [t |-> t, s |-> s, c |-> c]
JNull == JNode("lit", "null", << >>)
JObj(members) == JNode("obj", "", members)
JArr(items) == JNode("arr", "", items)
JMem(key, v) == JNode("mem", key, <<v>>)

\* key in parsed
HasKey(v, key) == v.t = "obj" /\ \E i \in 1..Len(v.c) : v.c[i].s = key

\* parsed[key] = value: a key already present keeps its place
SetMember(members, key, v) ==
    IF \E i \in 1..Len(members) : members[i].s = key
    THEN [i \in 1..Len(members) |->
             IF members[i].s = key THEN JMem(key, v) ELSE members[i]]
    ELSE Append(members, JMem(key, v))

\* outcome of a decoding step: the value and the position after it, or the
\* first word of the JSONDecodeError message
Decoded(v, pos) == [ok |-> TRUE, v |-> v, pos |-> pos, err |-> ""]
DecodeError(msg) == [ok |-> FALSE, v |-> JNull, pos |-> 0, err |-> msg]

\* json.decoder WHITESPACE.match(s, i).end()
RECURSIVE SkipWs(_, _)
SkipWs(s, i) == IF At(s, i) = WS THEN SkipWs(s, i + 1) ELSE i

\* json.decoder scanstring; s[i] is the opening quote
ScanString(s, i) ==
    LET j == Find(s, Quote, i + 1)
    IN  IF j > Len(s) THEN DecodeError("Unterminated")
        ELSE Decoded(JNode("str", Join(s, i + 1, j - 1), << >>), j + 1)

RECURSIVE ScanOnce(_, _)
RECURSIVE JSONObjectPairs(_, _, _)
RECURSIVE JSONArrayItems(_, _, _)

\* json.decoder JSONObject from the opening quote of a key at s[i]
JSONObjectPairs(s, i, members) ==
    LET key == ScanString(s, i)
        colon == SkipWs(s, key.pos)
        value == ScanOnce(s, SkipWs(s, colon + 1))
        pairs == SetMember(members, key.v.s, value.v)
        after == SkipWs(s, value.pos)
        more == SkipWs(s, after + 1)
    IN  IF ~key.ok THEN key
        ELSE IF At(s, colon) # ":" THEN DecodeError("Expecting")
        ELSE IF ~value.ok THEN value
        ELSE IF At(s, after) = "}" THEN Decoded(JObj(pairs), after + 1)
        ELSE IF At(s, after) # "," THEN DecodeError("Expecting")
        ELSE IF At(s, more) # Quote THEN DecodeError("Expecting")
        ELSE JSONObjectPairs(s, more, pairs)

\* json.decoder JSONObject; s[i - 1] is the opening brace
JSONObject(s, i) ==
    LET j == SkipWs(s, i)
    IN  IF At(s, j) = "}" THEN Decoded(JObj(<< >>), j + 1)
        ELSE IF At(s, j) # Quote THEN DecodeError("Expecting")
        ELSE JSONObjectPairs(s, j, << >>)

\* json.decoder JSONArray from the item that starts at s[i]
JSONArrayItems(s, i, items) ==
    LET value == ScanOnce(s, i)
        after == SkipWs(s, value.pos)
    IN  IF ~value.ok THEN value
        ELSE IF At(s, after) = "]"
             THEN Decoded(JArr(Append(items, value.v)), after + 1)
        ELSE IF At(s, after) # "," THEN DecodeError("Expecting")
        ELSE JSONArrayItems(s, SkipWs(s, after + 1), Append(items, value.v))

\* json.decoder JSONArray; s[i - 1] is the opening bracket
JSONArray(s, i) ==
    LET j == SkipWs(s, i)
    IN  IF At(s, j) = "]" THEN Decoded(JArr(<< >>), j + 1)
        ELSE JSONArrayItems(s, j, << >>)

\* json.scanner scan_once
ScanOnce(s, i) ==
    LET a == At(s, i)
    IN  CASE a = Quote -> ScanString(s, i)
          [] a = "{" -> JSONObject(s, i + 1)
          [] a = "[" -> JSONArray(s, i + 1)
          [] a \in Literals -> Decoded(JNode("lit", a, << >>), i + 1)
          [] a \in Numbers -> Decoded(JNode("num", a, << >>), i + 1)
          [] OTHER -> DecodeError("Expecting")

\* json.loads: one value, white space around it, nothing after it
json_loads(s) ==
    LET r == ScanOnce(s, SkipWs(s, 1))
    IN  IF ~r.ok THEN r
        ELSE IF SkipWs(s, r.pos) # Len(s) + 1 THEN DecodeError("Extra")
        ELSE r


----------------------------------------------------------------------------
(* parse_llm_response: the cascade                                        *)

Least(S) == CHOOSE x \in S : \A y \in S : x <= y

\* `return` of parse_llm_response; `by` names the statement that returned
Return(v, by) == [kind |-> "value", by |-> by, err |-> "", v |-> v]

\* raise ValueError(msg)
Raise(msg) == [kind |-> "error", by |-> "", err |-> "ValueError: " \o msg,
               v |-> JNull]

\* group 1 of the first match of fence, optional json tag, white space,
\* "{", as few characters as possible, "}", white space, fence;
\* << >> when nothing matches
FencedObject(s) ==
    LET open(i) == SkipWs(s, IF At(s, i + 1) = "json" THEN i + 2 ELSE i + 1)
        closes(i) == {k \in (open(i) + 1)..Len(s) :
                         s[k] = "}" /\ At(s, SkipWs(s, k + 1)) = Fence}
        starts == {i \in 1..Len(s) :
                      s[i] = Fence /\ At(s, open(i)) = "{" /\ closes(i) # {}}
    IN  IF starts = {} THEN << >>
        ELSE SubSeq(s, open(Least(starts)), Least(closes(Least(starts))))

\* the first match of "{", as few characters as possible, "}"
FirstObject(s) ==
    LET j == Find(s, "{", 1)
        k == Find(s, "}", j + 1)
    IN  IF k > Len(s) THEN << >> ELSE SubSeq(s, j, k)

\* '}' * n
Braces(n) == [i \in 1..n |-> "}"]

\* the loop over `attempt`: candidate + '}' * n, then n - 1, ..., 1
RECURSIVE BraceCompletion(_, _)
BraceCompletion(candidate, n) ==
    IF n <= 0 THEN DecodeError("")
    ELSE IF json_loads(candidate \o Braces(n)).ok
         THEN json_loads(candidate \o Braces(n))
         ELSE BraceCompletion(candidate, n - 1)

\* the scan for last_valid_pos: where the brace depth first returns to
\* zero, 0 if it never does
DepthZero(c, i, depth) ==
    LET brace_count(k) == depth + Cardinality({j \in i..k : c[j] = "{"})
                                - Cardinality({j \in i..k : c[j] = "}"})
        zero == {k \in i..Len(c) : c[k] = "}" /\ brace_count(k) = 0}
    IN  IF zero = {} THEN 0 ELSE Least(zero)

\* the block under `if json_start != -1`; NoResult when it falls through
FixIncomplete(text) ==
    LET json_start == Find(text, "{", 1)
        candidate == From(text, json_start)
        missing_braces == CountOf(candidate, "{") - CountOf(candidate, "}")
        fixed == BraceCompletion(candidate, missing_braces)
        whole == json_loads(candidate)
        last_valid_pos == DepthZero(candidate, 1, 0)
        partial == json_loads(SubSeq(candidate, 1, last_valid_pos))
    IN  IF json_start > Len(text) THEN NoResult
        ELSE IF fixed.ok THEN Return(fixed.v, "completion")
        ELSE IF whole.ok THEN Return(whole.v, "candidate")
        ELSE IF /\ whole.err \in {"Expecting", "Unterminated"}
                /\ last_valid_pos > 1
                /\ partial.ok
                /\ HasKey(partial.v, "sales_order_header")
             THEN Return(IF HasKey(partial.v, "sales_order_details")
                         THEN partial.v
                         ELSE JObj(SetMember(partial.v.c, "sales_order_details",
                                             JArr(<< >>))),
                         "partial")
        ELSE NoResult

\* the first match of "sales_order_header", white space, ":", white space,
\* "{", characters other than "}", "}"
HeaderObject(s) ==
    LET colon(i) == SkipWs(s, i + 3)
        brace(i) == SkipWs(s, colon(i) + 1)
        starts == {i \in 1..Len(s) :
                      /\ s[i] = Quote
                      /\ At(s, i + 1) = "sales_order_header"
                      /\ At(s, i + 2) = Quote
                      /\ At(s, colon(i)) = ":"
                      /\ At(s, brace(i)) = "{"
                      /\ Find(s, "}", brace(i) + 1) <= Len(s)}
    IN  IF starts = {} THEN << >>
        ELSE SubSeq(s, Least(starts), Find(s, "}", brace(Least(starts)) + 1))

\* '{' + header_str + ', "sales_order_details": []}'
MinimalJson(header_str) ==
    <<"{">> \o header_str
        \o <<",", WS, Quote, "sales_order_details", Quote, ":", WS, "[", "]", "}">>

\* the cascade with the header pattern tried before the repair of an
\* incomplete object
parse_llm_response_header_first(response_text) ==
    LET text == Strip(response_text)
        direct == json_loads(text)
        fenced == json_loads(FencedObject(text))
        first == json_loads(FirstObject(text))
        fix == FixIncomplete(text)
        minimal == json_loads(MinimalJson(HeaderObject(text)))
    IN  IF text = << >> THEN Raise("Empty LLM response")
        ELSE IF direct.ok THEN Return(direct.v, "direct")
        ELSE IF FencedObject(text) # << >> /\ fenced.ok
             THEN Return(fenced.v, "fence")
        ELSE IF FirstObject(text) # << >> /\ first.ok
             THEN Return(first.v, "object")
        ELSE IF HeaderObject(text) # << >> /\ minimal.ok
             THEN Return(minimal.v, "header")
        ELSE IF fix.kind = "value" THEN fix
        ELSE Raise("Could not parse JSON from LLM response")

parse_llm_response(response_text) ==
    LET text == Strip(response_text)
        direct == json_loads(text)
        fenced == json_loads(FencedObject(text))
        first == json_loads(FirstObject(text))
        fix == FixIncomplete(text)
        minimal == json_loads(MinimalJson(HeaderObject(text)))
    IN  IF text = << >> THEN Raise("Empty LLM response")
        ELSE IF direct.ok THEN Return(direct.v, "direct")
        ELSE IF FencedObject(text) # << >> /\ fenced.ok
             THEN Return(fenced.v, "fence")
        ELSE IF FirstObject(text) # << >> /\ first.ok
             THEN Return(first.v, "object")
        ELSE IF fix.kind = "value" THEN fix
        ELSE IF HeaderObject(text) # << >> /\ minimal.ok
             THEN Return(minimal.v, "header")
        ELSE Raise("Could not parse JSON from LLM response")


----------------------------------------------------------------------------
(* The reply texts the model is run on                                    *)

\* the largest number of closing braces cut off a reply
MaxMissing == 3

Str(w) == <<Quote, w, Quote>>
Member(key, value) == Str(key) \o <<":">> \o value
Object(inner) == <<"{">> \o inner \o <<"}">>

\* {"a":1}
Flat == Object(Member("a", <<"1">>))

\* {"a":{"b":{"c":1}}}
Nested == Object(Member("a", Object(Member("b", Object(Member("c", <<"1">>))))))

\* {"a":{"b":{"c":{"d":1}}}}
Deep == Object(Member("a", Nested))

\* {"sales_order_header": {"invoice_number": "INV-100", "total_amount": 42.5}
Header ==
    Str("sales_order_header") \o <<":", WS>>
        \o Object(Str("invoice_number") \o <<":", WS>> \o Str("INV-100")
                  \o <<",", WS>> \o Str("total_amount") \o <<":", WS, "42.5">>)

\* {"line_number":1,"product_name":"Widget","quantity":2,"unit_price":21.25,
\*  "line_total":42.5}
LineItem ==
    Object(Member("line_number", <<"1">>) \o <<",">>
           \o Member("product_name", Str("Widget")) \o <<",">>
           \o Member("quantity", <<"2">>) \o <<",">>
           \o Member("unit_price", <<"21.25">>) \o <<",">>
           \o Member("line_total", <<"42.5">>))

\* the invoice of the INV-100 scenario: header, then one line item
Invoice ==
    Object(Header \o <<",", WS>> \o Str("sales_order_details") \o <<":", WS>>
           \o <<"[">> \o LineItem \o <<"]">>)

\* {"sales_order_header": {...}}
HeaderOnly == Object(Header)

\* {"a":[1,{"b":1}]}
WithArray ==
    Object(Member("a", <<"[", "1", ",">> \o Object(Member("b", <<"1">>))
                       \o <<"]">>))

\* {"a":{"b":"}"}}, {"a":{"b":"{"}} and {"a":"} <fence>"}: braces and a
\* fence inside string values
CloseInString == Object(Member("a", Object(Member("b", Str("}")))))
OpenInString == Object(Member("a", Object(Member("b", Str("{")))))
FenceInString == Object(Member("a", <<Quote, "}", WS, Fence, Quote>>))

ValidObjects == {Object(<< >>), Flat, Nested, Deep, Invoice, HeaderOnly,
                 WithArray, CloseInString, OpenInString, FenceInString}

\* a reply that wraps X in a code fence, tagged or not, alone or in prose
FencedJson(X) == <<Fence, "json", WS>> \o X \o <<WS, Fence>>
FencedPlain(X) == <<Fence, WS>> \o X \o <<WS, Fence>>
FencedTight(X) == <<Fence, "json">> \o X \o <<Fence>>
FencedInProse(X) == <<"Here", WS>> \o FencedJson(X) \o <<WS, "Here">>
Fencings(X) == {FencedJson(X), FencedPlain(X), FencedTight(X), FencedInProse(X)}

\* a reply with prose before or after X
InProse(X) == {<<"Here", WS>> \o X, X \o <<WS, "Here">>}

\* a reply with prose before and after X
Surrounded(X) == <<"Here", WS>> \o X \o <<WS, "Here">>

\* the number of closing braces X ends with
RECURSIVE TrailingBraces(_)
TrailingBraces(X) ==
    IF X # << >> /\ X[Len(X)] = "}"
    THEN 1 + TrailingBraces(SubSeq(X, 1, Len(X) - 1)) ELSE 0

\* X cut so that its last n closing braces are missing and nothing else
Truncated(X, n) == SubSeq(X, 1, Len(X) - n)

Truncations(X) ==
    {Truncated(X, n) : n \in {m \in 1..MaxMissing : m <= TrailingBraces(X)}}

\* the invoice cut before its last two closing braces, and the invoice
\* without its last two closing braces
InvoiceCut == SubSeq(Invoice, 1, Len(Invoice) - 3)
InvoiceUnclosed == InvoiceCut \o <<"]">>

\* {"sales_order_header": {...}, "currency": "USD"}
HeaderPlus == Object(Header \o <<",", WS>> \o Member("currency", Str("USD")))

\* complete objects that have a header member
HeadedObjects == {HeaderOnly, HeaderPlus, Invoice}

\* a reply that holds X whole and ends inside the next object, cut in the
\* middle of a string
FollowedByCut(X) == X \o <<WS, "{", Quote, "a">>

\* replies that hold no object
NoObject ==
    { << >>, <<WS>>, <<WS, WS>>, <<"Here">>, <<"Here", WS, "Here">>,
      <<"42">>, <<"null">>, <<"[", "1", "]">>, Str("Here"),
      <<"{">>, <<"}">>, <<"}", "{">>, <<"{", "{">>,
      <<"{">> \o Str("a") \o <<":">>,
      <<"{", Quote, "a">>,
      <<"[">> \o Flat }

ResponseTexts ==
    ValidObjects
        \cup UNION {Fencings(X) : X \in ValidObjects}
        \cup UNION {InProse(X) : X \in ValidObjects}
        \cup {Surrounded(X) : X \in ValidObjects}
        \cup UNION {Truncations(X) : X \in ValidObjects}
        \cup {InvoiceCut, InvoiceUnclosed}
        \cup {FollowedByCut(X) : X \in HeadedObjects \cup {Flat}}
        \cup NoObject

----------------------------------------------------------------------------
(* The extractor: a reply arrives and is parsed *)

\* response.choices[0].message.content
openai_reply(text) ==
    /\ pres.kind = "none"
    /\ ptext' = text
    /\ pres' = [NoResult EXCEPT !.kind = "pending"]
    /\ UNCHANGED <<uploadVars, readerVars, lastUpdate, listed>>

\* parsed_data = self.parse_llm_response(extracted_data)
parse_reply ==
    /\ pres.kind = "pending"
    /\ pres' = parse_llm_response(ptext)
    /\ UNCHANGED <<uploadVars, readerVars, ptext, lastUpdate, listed>>

NextParse ==
    \/ \E text \in ResponseTexts : openai_reply(text)
    \/ parse_reply

SpecParse == Init /\ [][NextParse]_vars


----------------------------------------------------------------------------
(* Properties of parse_llm_response *)

\* parse_llm_response has returned or raised
Parsed == pres.kind \in {"value", "error"}

Unparsable == "ValueError: Could not parse JSON from LLM response"

\* C14: for a non-empty reply, parse_llm_response returns a value that has
\* both a sales_order_header and a sales_order_details member, or it fails
\* with the parser's own error; it returns nothing else.
C14_HeaderAndLineItems ==
    (Parsed /\ Strip(ptext) # << >>) =>
        \/ /\ pres.kind = "value"
           /\ HasKey(pres.v, "sales_order_header")
           /\ HasKey(pres.v, "sales_order_details")
        \/ /\ pres.kind = "error"
           /\ pres.err = Unparsable

\* C15: a valid object wrapped in a code fence, tagged json or not, parses
\* to the same value as the object alone.
C15_FenceTransparent ==
    \A X \in ValidObjects :
        (Parsed /\ ptext \in {FencedJson(X), FencedPlain(X), FencedTight(X)}) =>
            /\ pres.kind = "value"
            /\ parse_llm_response(X).kind = "value"
            /\ pres.v = parse_llm_response(X).v

\* C16: a valid object cut by exactly n of its trailing closing braces,
\* n in 1..MaxMissing, is returned by the brace completion with the value
\* of the whole object.
C16_BraceCompletion ==
    \A X \in ValidObjects : \A n \in 1..MaxMissing :
        (Parsed /\ n <= TrailingBraces(X) /\ ptext = Truncated(X, n)) =>
            /\ pres.kind = "value"
            /\ pres.by = "completion"
            /\ pres.v = parse_llm_response(X).v

\* C17: the invoice without its final two closing braces is returned by the
\* brace completion with the value of the whole invoice, line items
\* included.
C17_TruncatedInvoice ==
    (Parsed /\ ptext \in {InvoiceCut, InvoiceUnclosed}) =>
        /\ pres.kind = "value"
        /\ pres.by = "completion"
        /\ pres.v = parse_llm_response(Invoice).v

\* C18: whenever parse_llm_response does not produce an object, it fails,
\* and with a ValueError of the parser: a reply without an object (one
\* without any brace, for one) never yields anything else.
C18_OnlyUnparsable ==
    (Parsed /\ ~(pres.kind = "value" /\ pres.v.t = "obj")) =>
        /\ pres.kind = "error"
        /\ pres.err \in {Unparsable, "ValueError: Empty LLM response"}


----------------------------------------------------------------------------
(* The store's own interface, called directly: create_document and        *)
(* update_document                                                        *)

\* the number of direct update_document calls
MaxUpdates == 2

\* ids a direct caller asks for; no document ever has the last one
UpdateIds == {"1", "2", "none"}

\* the `updates` of a direct caller; Document has no attribute `colour`,
\* and `id` is an attribute like any other
UpdateChoices ==
    { << <<"status", "error">> >>,
      << <<"status", "processing">>, <<"file_type", "txt">> >>,
      << <<"colour", "red">> >>,
      << <<"id", "2">> >> }

\* for key, value in updates.items(): if hasattr(doc, key): setattr(...)
RECURSIVE SetAttrs(_, _)
SetAttrs(doc, updates) ==
    IF updates = << >> THEN doc
    ELSE SetAttrs(SetAttr(doc, updates[1][1], updates[1][2]), Tail(updates))

\* storage.update_document(id, updates) by some other caller, the whole
\* critical section in one step
update_with(id, updates) ==
    /\ lock = 0
    /\ lastUpdate.calls < MaxUpdates
    /\ lastUpdate' = [calls |-> lastUpdate.calls + 1, id |-> id,
                      changes |-> updates, found |-> id \in DOMAIN documents]
    /\ IF id \notin DOMAIN documents
       THEN UNCHANGED <<documents, history, versions>>
       ELSE LET doc == SetAttrs(documents[id], updates)
            IN  /\ documents' = [documents EXCEPT ![id] = doc]
                /\ history' = Observe(id, doc.status)
                /\ versions' = Commit(id, doc)
    /\ UNCHANGED <<order, next_id, lock, pc, loc, response, started, readerVars,
                   procCalls, apiCalls, rejected, invalid, failed, overwritten,
                   ptext, pres, listed>>

NextUpdate ==
    \/ \E id \in PresetIds : create_with_id(id)
    \/ \E id \in UpdateIds : \E updates \in UpdateChoices : update_with(id, updates)

SpecUpdate == Init /\ [][NextUpdate]_vars

\* the attributes that `updates` names
Named(updates) == {updates[i][1] : i \in 1..Len(updates)}

\* a step that leaves the keys of the store, every document but id, and
\* every attribute of id outside `names` as they are
Frame(id, names) ==
    /\ DOMAIN documents' = DOMAIN documents
    /\ order' = order
    /\ next_id' = next_id
    /\ \A k \in DOMAIN documents :
          \A f \in DocFields :
              (k # id \/ f \notin names) => documents'[k][f] = documents[k][f]

\* C19: update_document changes only the attributes its updates name, of
\* the one document it is called for, and no key of the store; called for
\* an id the store does not hold it finds nothing and changes nothing.
C19_UpdateFrame ==
    [][\A id \in UpdateIds : \A updates \in UpdateChoices :
          update_with(id, updates) =>
              /\ Frame(id, Named(updates))
              /\ lastUpdate'.found = (id \in DOMAIN documents)
              /\ id \notin DOMAIN documents => documents' = documents
      ]_vars

C19_Witness ==
    /\ lastUpdate.calls > 0
    /\ lastUpdate.found
    /\ lastUpdate.changes = << <<"status", "processing">>, <<"file_type", "txt">> >>
    /\ documents[lastUpdate.id].status = "processing"
    /\ documents[lastUpdate.id].file_type = "txt"
    /\ \E k \in Ids \ {lastUpdate.id} : documents[k].status = "uploaded"


----------------------------------------------------------------------------
(* A list request running beside the uploads: list_documents *)

\* storage.list_documents(): list(self._documents.values()) under the lock.
\* The list holds the stored Document objects themselves, in the order of
\* the dict; at_call keeps what their attributes were when it was built.
list_documents ==
    /\ lock = 0
    /\ ~listed.called
    /\ listed' = [called |-> TRUE,
                  ids |-> order,
                  at_call |-> [i \in 1..Len(order) |-> documents[order[i]]]]
    /\ UNCHANGED <<uploadVars, readerVars, ptext, pres, lastUpdate>>

NextList ==
    \/ Next
    \/ list_documents

SpecList == Init /\ [][NextList]_vars

\* C20: what list_documents returned stays as it was at the call: the same
\* documents in creation order, and, read through the list, the attribute
\* values they had then, whatever is created or updated afterwards.
C20_ListSnapshot ==
    listed.called =>
        /\ IsPrefix(listed.ids, order)
        /\ \A i \in 1..Len(listed.ids) :
              documents[listed.ids[i]] = listed.at_call[i]


----------------------------------------------------------------------------
(* The store's own interface, called directly: the two lookups *)

\* `updates` that give a document a sales order id
SalesOrderUpdates ==
    { << <<"sales_order_header_id", Some("INV-100")>> >>,
      << <<"sales_order_header_id", Some("1")>> >> }

\* keys a direct caller looks up
LookupKeys == {"1", "2", "INV-100", "none"}

\* storage.get_document_by_sales_order_id(key), the whole critical section
\* in one step; rpc and rloc keep what the call returned
lookup_sales_order(key) ==
    /\ lock = 0
    /\ LET found == get_document_by_sales_order_id(key)
       IN  /\ rpc' = IF found = None THEN "by_sales_order: None"
                     ELSE "by_sales_order: Document"
           /\ rloc' = [IdleReader EXCEPT !.key = key,
                          !.ref = IF found = None THEN "" ELSE found[1]]
    /\ UNCHANGED <<uploadVars, auxVars>>

\* storage.get_document(key), the whole critical section in one step
lookup_id(key) ==
    /\ lock = 0
    /\ LET found == get_document(key)
       IN  /\ rpc' = IF found = None THEN "by_id: None" ELSE "by_id: Document"
           /\ rloc' = [IdleReader EXCEPT !.key = key,
                          !.ref = IF found = None THEN "" ELSE found[1]]
    /\ UNCHANGED <<uploadVars, auxVars>>

NextLookup ==
    \/ \E id \in PresetIds : create_with_id(id)
    \/ \E id \in UpdateIds : \E updates \in SalesOrderUpdates :
          update_with(id, updates)
    \/ \E key \in LookupKeys : lookup_sales_order(key)
    \/ \E key \in LookupKeys : lookup_id(key)

SpecLookup == Init /\ [][NextLookup]_vars

\* the positions in insertion order of the documents with sales order id s
Matches(s) ==
    {i \in 1..Len(order) : documents[order[i]].sales_order_header_id = <<s>>}

\* what the latest lookup returned is right for the store as it is
LookupRight ==
    /\ rpc = "by_sales_order: None" => Matches(rloc.key) = {}
    /\ rpc = "by_sales_order: Document" =>
          \E i \in Matches(rloc.key) :
              /\ order[i] = rloc.ref
              /\ \A j \in Matches(rloc.key) : i <= j
    /\ rpc = "by_id: None" => rloc.key \notin DOMAIN documents
    /\ rpc = "by_id: Document" =>
          rloc.key \in DOMAIN documents /\ rloc.ref = rloc.key

\* C21: get_document_by_sales_order_id returns the earliest inserted
\* document with that sales order id, and None exactly when there is none;
\* get_document returns None exactly when the key is not stored; neither
\* changes the store.
C21_Lookups ==
    [][readerVars' # readerVars =>
          /\ LookupRight'
          /\ UNCHANGED <<uploadVars, auxVars>>]_vars

C21_Witness ==
    /\ rpc = "by_sales_order: Document"
    /\ Cardinality(Matches(rloc.key)) = 2
    /\ rloc.ref = order[1]


----------------------------------------------------------------------------
(* The order of the recovery strategies *)

\* what a strategy yields
Yields(v) == [ok |-> TRUE, v |-> v]
Nothing == [ok |-> FALSE, v |-> JNull]

\* the outcome of strategy k on the stripped text, taken alone: 1 the whole
\* text, 2 the fenced block, 3 the first brace-delimited object, 4 the
\* text from the first opening brace with its missing braces appended or
\* as it is, 5 the first complete top-level object after a truncation
\* error, 6 the header wrapper
Strategy(k, text) ==
    LET candidate == From(text, Find(text, "{", 1))
        missing == CountOf(candidate, "{") - CountOf(candidate, "}")
        fixed == BraceCompletion(candidate, missing)
        whole == json_loads(candidate)
        upto == DepthZero(candidate, 1, 0)
        partial == json_loads(SubSeq(candidate, 1, upto))
        parsed(t) == IF t # << >> /\ json_loads(t).ok
                     THEN Yields(json_loads(t).v) ELSE Nothing
    IN  CASE k = 1 -> parsed(text)
          [] k = 2 -> parsed(FencedObject(text))
          [] k = 3 -> parsed(FirstObject(text))
          [] k = 4 -> IF candidate = << >> THEN Nothing
                      ELSE IF fixed.ok THEN Yields(fixed.v)
                      ELSE IF whole.ok THEN Yields(whole.v)
                      ELSE Nothing
          [] k = 5 -> IF /\ candidate # << >>
                         /\ ~whole.ok
                         /\ whole.err \in {"Expecting", "Unterminated"}
                         /\ upto > 1
                         /\ partial.ok
                         /\ HasKey(partial.v, "sales_order_header")
                      THEN Yields(IF HasKey(partial.v, "sales_order_details")
                                  THEN partial.v
                                  ELSE JObj(SetMember(partial.v.c,
                                                      "sales_order_details",
                                                      JArr(<< >>))))
                      ELSE Nothing
          [] k = 6 -> IF HeaderObject(text) = << >> THEN Nothing
                      ELSE parsed(MinimalJson(HeaderObject(text)))

\* the strategies that succeed on the text
Succeeding(text) == {k \in 1..6 : Strategy(k, text).ok}

\* the strategy a return statement belongs to
Rank(by) ==
    CASE by = "direct" -> 1
      [] by = "fence" -> 2
      [] by = "object" -> 3
      [] by \in {"completion", "candidate"} -> 4
      [] by = "partial" -> 5
      [] by = "header" -> 6

\* C22: on a non-empty reply, parse_llm_response returns the outcome of the
\* lowest-numbered strategy that succeeds on it, from the return statement
\* of that strategy, and it raises only when none of the six succeeds.
C22_StrategyOrder ==
    (Parsed /\ Strip(ptext) # << >>) =>
        LET wins == Succeeding(Strip(ptext))
        IN  IF wins = {}
            THEN pres.kind = "error" /\ pres.err = Unparsable
            ELSE /\ pres.kind = "value"
                 /\ Rank(pres.by) = Least(wins)
                 /\ pres.v = Strategy(Least(wins), Strip(ptext)).v

\* the invoice without its last brace: the completion and the header
\* wrapper both succeed, with different values, and the completion's is
\* returned
C22_Witness ==
    /\ Parsed
    /\ ptext = Truncated(Invoice, 1)
    /\ {4, 6} \subseteq Succeeding(ptext)
    /\ Strategy(4, ptext).v # Strategy(6, ptext).v
    /\ pres.by = "completion"
    /\ pres.v = Strategy(4, ptext).v


----------------------------------------------------------------------------
(* Objects in prose *)

\* C23: a valid object with prose that holds no brace before it, after it,
\* or on both sides, parses to the value of the object alone, nested
\* objects included.
C23_ObjectInProse ==
    \A X \in ValidObjects :
        (Parsed /\ ptext \in InProse(X) \cup {Surrounded(X)}) =>
            /\ pres.kind = "value"
            /\ pres.v = json_loads(X).v


----------------------------------------------------------------------------
(* The first complete top-level object of a truncated reply *)

\* the object v with sales_order_details defaulted to the empty list
WithDetails(v) ==
    IF HasKey(v, "sales_order_details") THEN v
    ELSE JObj(SetMember(v.c, "sales_order_details", JArr(<< >>)))

\* C24: when a reply holds a complete object with a header and then breaks
\* off inside a string, so that strategies 1 to 4 fail, the parser returns
\* that first complete object, every member of it, with the line items
\* defaulted to the empty list when it has none; and what the depth scan
\* returns always has a header.
C24_FirstCompleteObject ==
    /\ \A X \in HeadedObjects :
          (/\ Parsed
           /\ ptext = FollowedByCut(X)
           /\ Succeeding(ptext) \cap 1..4 = {}) =>
              /\ pres.kind = "value"
              /\ pres.v = WithDetails(json_loads(X).v)
    /\ (Parsed /\ pres.by = "partial") => HasKey(pres.v, "sales_order_header")


----------------------------------------------------------------------------
(* Progress of an upload request *)

\* the steps of request thread t after it has entered create_document: the
\* thread runs on, and the outbound call returns or raises
RequestStep(t) ==
    \/ create_document(t)
    \/ process_document(t)
    \/ \E hasKey \in BOOLEAN : extract_document_data(t, hasKey)
    \/ \E reply \in ModelReplies : model_reply(t, reply)
    \/ update_document(t)
    \/ upload_append(t)

\* Spec with every request thread scheduled fairly and every outbound call
\* ending; a thread that waits for the store lock gets it once it is free,
\* and as the requests are finitely many weak fairness expresses that
SpecLive == Spec /\ \A t \in Uploaders : WF_vars(RequestStep(t))

\* the keys the counter hands out
DocumentIds == {IdStr(i) : i \in 1..MaxDocs}

\* C25: a document that is stored in status `uploaded` or `processing` is
\* eventually in status `completed` or `error`, whatever the other
\* requests do, as long as threads are scheduled fairly and outbound calls
\* end.
C25_EventuallyTerminal ==
    \A k \in DocumentIds :
        (k \in DOMAIN documents /\ documents[k].status \in {"uploaded", "processing"})
            ~> (k \in DOMAIN documents /\ documents[k].status \in {"completed", "error"})

\* two requests ran side by side; one document went from `uploaded`
\* through `processing` to `completed`, the other to `error`
C25_Witness ==
    \E k, j \in DOMAIN history :
        /\ history[k] = <<"uploaded", "processing", "completed">>
        /\ history[j] = <<"uploaded", "processing", "error">>
        /\ \A t \in Uploaders : Len(response[t]) = 1


----------------------------------------------------------------------------
(* The lookup of the status, data and file endpoints *)

\* C26: when a request has resolved its key to a document and a document
\* with that key as its id is stored, the document it resolved to is that
\* one, whatever the sales order ids of the other documents are.
C26_LookupById ==
    (/\ rpc \in {"status", "extracted_data", "error", "sales_order_header_id",
                 "done"}
     /\ rloc.key \in DOMAIN documents) =>
        rloc.ref = rloc.key


----------------------------------------------------------------------------
(* The invariants of the store *)

\* C27: every step of a store operation leaves every key of the store on a
\* document whose id is that key, removes no key, and never moves the id
\* counter back to an id it has handed out; update_document in particular
\* leaves the document it changed under its own id.
C27_StoreInvariant ==
    [][/\ \A k \in DOMAIN documents' : documents'[k].id = k
       /\ DOMAIN documents \subseteq DOMAIN documents'
       /\ next_id' >= next_id
       /\ \A k \in DOMAIN documents' \ DOMAIN documents :
             next_id' > next_id => k = IdStr(next_id)
      ]_vars

============================================================================
